---- MODULE Spec2Model ----
(***************************************************************************)
(* The decoding tokenizer `Words` and the simple splitter `TrimmedWords`   *)
(* of crates/bot-common/src/words.rs, and the release-checking loop of     *)
(* bot/src/updater.rs.  Each is run by a specification of its own; the     *)
(* variables of the others then keep their initial values.                 *)
(*                                                                         *)
(* The backing text is a sequence of UTF-8 bytes; byte offsets are 0-based *)
(* as in the source, so byte offset i is element i + 1 of the sequence.    *)
(* A character is its Unicode scalar value.  One action is one iteration   *)
(* of a loop of Words::next (or the call's entry check); `pc` is the       *)
(* position of the call in progress.                                       *)
(***************************************************************************)
EXTENDS Integers, Sequences, FiniteSets, TLC

VARIABLES
    (* Words: its fields, the position of the next() call in progress, the *)
    (* last return value of next(), the tokens returned so far, the last   *)
    (* return value of a take() called outside next().                     *)
    string, off, b0, buffer, pc, ret, out, taken,
    (* A second Words over the same text. *)
    twin,
    (* TrimmedWords: the text given to new(), the field `string`, the last *)
    (* return value of next(), the tokens returned so far.                 *)
    tinput, tstring, tret, tout,
    (* updater: the shared `latest`, whether `cache` is Some, the position *)
    (* of the future, and the last thing the future did.                   *)
    latest, cache, upc, event

wordsVars == <<string, off, b0, buffer, pc, ret, out, taken>>

twinVars == <<twin>>

trimVars == <<tinput, tstring, tret, tout>>

updVars == <<latest, cache, upc, event>>

vars == <<wordsVars, twinVars, trimVars, updVars>>

(* Longest input text, in characters, of a tokenizer driven by next()      *)
(* alone, of one whose crate-internal take() is also called, and of one    *)
(* whose caller keeps calling next().                                      *)
MaxLen == 4
MaxLenTake == 3
MaxLenLive == 3

(* ------------------------------ characters ----------------------------- *)

SPACE == 32
TAB == 9
CR == 13
LF == 10
BACKSLASH == 92
QUOTE == 34
LetterT == 116
LetterR == 114
LetterN == 110

(* The input characters: the four whitespace characters, the three escape  *)
(* letters (plain characters outside an escape), backslash, double quote,  *)
(* and one character each of 2, 3 and 4 encoded bytes (U+00E9, U+20AC,     *)
(* U+1F44C).                                                               *)
Alphabet ==
    {SPACE, TAB, CR, LF, LetterT, LetterR, LetterN, BACKSLASH, QUOTE,
     233, 8364, 128076}

(* char::encode_utf8, as String::push appends it. *)
Encode(c) ==
    IF c < 128 THEN <<c>>
    ELSE IF c < 2048 THEN <<192 + (c \div 64), 128 + (c % 64)>>
    ELSE IF c < 65536
        THEN <<224 + (c \div 4096), 128 + ((c \div 64) % 64), 128 + (c % 64)>>
    ELSE <<240 + (c \div 262144), 128 + ((c \div 4096) % 64),
           128 + ((c \div 64) % 64), 128 + (c % 64)>>

RECURSIVE EncodeAll(_)
EncodeAll(cs) ==
    IF cs = <<>> THEN <<>> ELSE Encode(Head(cs)) \o EncodeAll(Tail(cs))

(* A UTF-8 continuation byte. *)
IsCont(b) == b >= 128 /\ b < 192

(* Encoded width announced by a leading byte. *)
WidthOf(b) ==
    IF b < 128 THEN 1 ELSE IF b < 224 THEN 2 ELSE IF b < 240 THEN 3 ELSE 4

(* Payload of the continuation byte at 0-based offset i, 0 past the end. *)
ContBits(s, i) == IF i < Len(s) THEN s[i + 1] % 64 ELSE 0

(* The character that starts at 0-based byte offset i of s (i < Len(s)). *)
DecodeAt(s, i) ==
    LET b == s[i + 1] IN
    IF b < 128 THEN b
    ELSE IF b < 224 THEN (b % 32) * 64 + ContBits(s, i + 1)
    ELSE IF b < 240
        THEN (b % 16) * 4096 + ContBits(s, i + 1) * 64 + ContBits(s, i + 2)
    ELSE (b % 8) * 262144 + ContBits(s, i + 1) * 4096
         + ContBits(s, i + 2) * 64 + ContBits(s, i + 3)

(* str::is_char_boundary. *)
IsCharBoundary(s, i) ==
    \/ i = 0
    \/ i = Len(s)
    \/ i > 0 /\ i < Len(s) /\ ~IsCont(s[i + 1])

(* &s[i..] for an offset the slice accepts. *)
SliceFrom(s, i) == SubSeq(s, i + 1, Len(s))

(* Option<(usize, char)>. *)
None == [some |-> FALSE, n |-> 0, c |-> 0]
Some(n, c) == [some |-> TRUE, n |-> n, c |-> c]

(* Mutant of IsWhitespace: the '\r' alternative left out of the pattern. *)
IsWhitespaceNoCR(c) == c \in {SPACE, TAB, LF}

(* The pattern ' ' | '\t' | '\r' | '\n' of Words::next. *)
IsWhitespace(c) == c \in {SPACE, TAB, CR, LF}

(* ------------------------------- Words --------------------------------- *)

(* Mutant of New: the cursor is left on the first character. *)
NewCursorAtStart(text) ==
    [string |-> text,
     off |-> 0,
     b0 |-> IF Len(text) = 0 THEN None ELSE Some(0, DecodeAt(text, 0)),
     buffer |-> <<>>]

(* Words::new. *)
New(text) ==
    LET first == IF Len(text) = 0 THEN None ELSE Some(0, DecodeAt(text, 0))
        w == IF Len(text) = 0 THEN 0 ELSE WidthOf(text[1])
    IN  [string |-> text,
         off |-> IF Len(text) > w THEN w ELSE Len(text),
         b0 |-> first,
         buffer |-> <<>>]

(* Mutant of Take: the lookahead keeps the offset char_indices gives,     *)
(* relative to the slice, without adding `off`.                            *)
TakeRelativeOffset(w) ==
    IF ~(w.off <= Len(w.string) /\ IsCharBoundary(w.string, w.off))
    THEN [w |-> w, out |-> None, ok |-> FALSE]
    ELSE
        LET s == SliceFrom(w.string, w.off)
            next == IF Len(s) = 0 THEN None ELSE Some(0, DecodeAt(s, 0))
            wd == IF Len(s) = 0 THEN 0 ELSE WidthOf(s[1])
            adv == IF Len(s) > wd THEN wd ELSE Len(s)
        IN  [w |-> [w EXCEPT !.b0 = next, !.off = w.off + adv],
             out |-> w.b0,
             ok |-> TRUE]

(* Mutant of Take: the cursor advances by one byte, not by one character. *)
TakeByteStep(w) ==
    IF ~(w.off <= Len(w.string) /\ IsCharBoundary(w.string, w.off))
    THEN [w |-> w, out |-> None, ok |-> FALSE]
    ELSE
        LET s == SliceFrom(w.string, w.off)
            next == IF Len(s) = 0 THEN None ELSE Some(w.off, DecodeAt(s, 0))
            adv == IF Len(s) > 1 THEN 1 ELSE Len(s)
        IN  [w |-> [w EXCEPT !.b0 = next, !.off = w.off + adv],
             out |-> w.b0,
             ok |-> TRUE]

(* Words::take.  ok is FALSE when the slice at `off` panics. *)
Take(w) ==
    IF ~(w.off <= Len(w.string) /\ IsCharBoundary(w.string, w.off))
    THEN [w |-> w, out |-> None, ok |-> FALSE]
    ELSE
        LET s == SliceFrom(w.string, w.off)
            next == IF Len(s) = 0 THEN None ELSE Some(w.off, DecodeAt(s, 0))
            wd == IF Len(s) = 0 THEN 0 ELSE WidthOf(s[1])
            adv == IF Len(s) > wd THEN wd ELSE Len(s)
        IN  [w |-> [w EXCEPT !.b0 = next, !.off = w.off + adv],
             out |-> w.b0,
             ok |-> TRUE]

(* Words::peek. *)
Peek(w) == w.b0

(* Mutant of Rest: the slice starts at the cursor, past the lookahead. *)
RestFromCursor(w) == IF w.b0.some THEN SliceFrom(w.string, w.off) ELSE <<>>

(* Mutant of Rest: the whole text when the lookahead is exhausted. *)
RestWholeWhenDone(w) ==
    IF w.b0.some THEN SliceFrom(w.string, w.b0.n) ELSE w.string

(* Words::rest. *)
Rest(w) == IF w.b0.some THEN SliceFrom(w.string, w.b0.n) ELSE <<>>

(* Mutant of EscapeChar: the 'r' arm left out of the table. *)
EscapeCharNoR(c) ==
    IF c = LetterT THEN TAB
    ELSE IF c = LetterN THEN LF
    ELSE c

(* The escape table of Words::escape. *)
EscapeChar(c) ==
    IF c = LetterT THEN TAB
    ELSE IF c = LetterR THEN CR
    ELSE IF c = LetterN THEN LF
    ELSE c

(* Mutant of Escape: the escaped character is peeked at, not taken. *)
EscapePeek(w) ==
    IF ~w.b0.some THEN [w |-> w, ok |-> TRUE]
    ELSE [w |-> [w EXCEPT !.buffer = @ \o Encode(EscapeChar(w.b0.c))],
          ok |-> TRUE]

(* Mutant of Escape: a backslash with nothing after it is kept. *)
EscapeKeepLone(w) ==
    LET r == Take(w) IN
    IF ~r.ok THEN [w |-> r.w, ok |-> FALSE]
    ELSE IF ~r.out.some
        THEN [w |-> [r.w EXCEPT !.buffer = @ \o Encode(BACKSLASH)],
              ok |-> TRUE]
    ELSE [w |-> [r.w EXCEPT !.buffer = @ \o Encode(EscapeChar(r.out.c))],
          ok |-> TRUE]

(* Words::escape. *)
Escape(w) ==
    LET r == Take(w) IN
    IF ~r.ok THEN [w |-> r.w, ok |-> FALSE]
    ELSE IF ~r.out.some THEN [w |-> r.w, ok |-> TRUE]
    ELSE [w |-> [r.w EXCEPT !.buffer = @ \o Encode(EscapeChar(r.out.c))],
          ok |-> TRUE]

(* Mutant of SkipWhitespace: the whitespace run is left in the input. *)
SkipNothing(w) == [w |-> w, ok |-> TRUE]

(* The inner loop of the whitespace arm: take while the lookahead is       *)
(* whitespace.                                                             *)
RECURSIVE SkipWhitespace(_)
SkipWhitespace(w) ==
    IF Peek(w).some /\ IsWhitespace(Peek(w).c)
    THEN LET r == Take(w) IN
         IF r.ok THEN SkipWhitespace(r.w) ELSE [w |-> r.w, ok |-> FALSE]
    ELSE [w |-> w, ok |-> TRUE]

(* Return values of next(): Option<String>; "init" before any return. *)
NotCalled == [kind |-> "init", tok |-> <<>>]
RetNone == [kind |-> "none", tok |-> <<>>]
RetSome(t) == [kind |-> "some", tok |-> t]
Continue == [kind |-> "continue", tok |-> <<>>]

(* Mutant of Flush: the buffer is returned without the emptiness test. *)
FlushAlways(w, pcElse, retElse) ==
    [w |-> [w EXCEPT !.buffer = <<>>], pc |-> "idle", ret |-> RetSome(w.buffer)]

(* `if !self.buffer.is_empty() { clone; clear; return Some(ret) }`, and    *)
(* what follows it otherwise: `continue` in the whitespace arm, `None`     *)
(* after the loop.                                                         *)
Flush(w, pcElse, retElse) ==
    IF w.buffer # <<>>
    THEN [w |-> [w EXCEPT !.buffer = <<>>], pc |-> "idle",
          ret |-> RetSome(w.buffer)]
    ELSE [w |-> w, pc |-> pcElse, ret |-> retElse]

Panic(w) == [w |-> w, pc |-> "panic", ret |-> Continue]

(* Mutant of ScanIter: an opening quote also ends the token in progress   *)
(* (quote-delimited tokens instead of buffer accumulation).                *)
ScanIterQuoteSplit(w) ==
    LET r == Take(w) IN
    IF ~r.ok THEN Panic(r.w)
    ELSE IF ~r.out.some THEN Flush(r.w, "idle", RetNone)
    ELSE IF IsWhitespace(r.out.c)
        THEN LET k == SkipWhitespace(r.w) IN
             IF ~k.ok THEN Panic(k.w) ELSE Flush(k.w, "scan", Continue)
    ELSE IF r.out.c = BACKSLASH
        THEN LET e == Escape(r.w) IN
             IF ~e.ok THEN Panic(e.w)
             ELSE [w |-> e.w, pc |-> "scan", ret |-> Continue]
    ELSE IF r.out.c = QUOTE
        THEN [w |-> [r.w EXCEPT !.buffer = <<>>], pc |-> "quoted",
              ret |-> IF r.w.buffer # <<>> THEN RetSome(r.w.buffer)
                      ELSE Continue]
    ELSE [w |-> [r.w EXCEPT !.buffer = @ \o Encode(r.out.c)],
          pc |-> "scan", ret |-> Continue]

(* One iteration of the outer `while let` of Words::next, and the code     *)
(* after the loop when take() yields nothing.                              *)
ScanIter(w) ==
    LET r == Take(w) IN
    IF ~r.ok THEN Panic(r.w)
    ELSE IF ~r.out.some THEN Flush(r.w, "idle", RetNone)
    ELSE IF IsWhitespace(r.out.c)
        THEN LET k == SkipWhitespace(r.w) IN
             IF ~k.ok THEN Panic(k.w) ELSE Flush(k.w, "scan", Continue)
    ELSE IF r.out.c = BACKSLASH
        THEN LET e == Escape(r.w) IN
             IF ~e.ok THEN Panic(e.w)
             ELSE [w |-> e.w, pc |-> "scan", ret |-> Continue]
    ELSE IF r.out.c = QUOTE
        THEN [w |-> r.w, pc |-> "quoted", ret |-> Continue]
    ELSE [w |-> [r.w EXCEPT !.buffer = @ \o Encode(r.out.c)],
          pc |-> "scan", ret |-> Continue]

(* Mutant of QuotedIter: the closing quote is pushed before the run ends. *)
QuotedIterKeepQuote(w) ==
    LET r == Take(w) IN
    IF ~r.ok THEN Panic(r.w)
    ELSE IF ~r.out.some THEN [w |-> r.w, pc |-> "scan", ret |-> Continue]
    ELSE IF r.out.c = BACKSLASH
        THEN LET e == Escape(r.w) IN
             IF ~e.ok THEN Panic(e.w)
             ELSE [w |-> e.w, pc |-> "quoted", ret |-> Continue]
    ELSE IF r.out.c = QUOTE
        THEN [w |-> [r.w EXCEPT !.buffer = @ \o Encode(r.out.c)],
              pc |-> "scan", ret |-> Continue]
    ELSE [w |-> [r.w EXCEPT !.buffer = @ \o Encode(r.out.c)],
          pc |-> "quoted", ret |-> Continue]

(* Mutant of QuotedIter: the end of input inside a quoted run is an      *)
(* error.                                                                  *)
QuotedIterStrict(w) ==
    LET r == Take(w) IN
    IF ~r.ok THEN Panic(r.w)
    ELSE IF ~r.out.some THEN Panic(r.w)
    ELSE IF r.out.c = BACKSLASH
        THEN LET e == Escape(r.w) IN
             IF ~e.ok THEN Panic(e.w)
             ELSE [w |-> e.w, pc |-> "quoted", ret |-> Continue]
    ELSE IF r.out.c = QUOTE
        THEN [w |-> r.w, pc |-> "scan", ret |-> Continue]
    ELSE [w |-> [r.w EXCEPT !.buffer = @ \o Encode(r.out.c)],
          pc |-> "quoted", ret |-> Continue]

(* One iteration of the `while let` of the quoted arm. *)
QuotedIter(w) ==
    LET r == Take(w) IN
    IF ~r.ok THEN Panic(r.w)
    ELSE IF ~r.out.some THEN [w |-> r.w, pc |-> "scan", ret |-> Continue]
    ELSE IF r.out.c = BACKSLASH
        THEN LET e == Escape(r.w) IN
             IF ~e.ok THEN Panic(e.w)
             ELSE [w |-> e.w, pc |-> "quoted", ret |-> Continue]
    ELSE IF r.out.c = QUOTE
        THEN [w |-> r.w, pc |-> "scan", ret |-> Continue]
    ELSE [w |-> [r.w EXCEPT !.buffer = @ \o Encode(r.out.c)],
          pc |-> "quoted", ret |-> Continue]

(* The loops of one Words::next call, run to its return. *)
RECURSIVE RunCall(_, _)
RunCall(w, p) ==
    LET r == IF p = "scan" THEN ScanIter(w) ELSE QuotedIter(w) IN
    IF r.pc \in {"idle", "panic"} THEN r ELSE RunCall(r.w, r.pc)

(* Words::next as one call. *)
NextCall(w) ==
    IF Len(w.string) = 0
    THEN [w |-> w, pc |-> "idle", ret |-> RetNone]
    ELSE RunCall(w, "scan")

(* Iterator::collect over Words: next() until it returns None. *)
RECURSIVE Drain(_)
Drain(w) ==
    LET r == NextCall(w) IN
    IF r.ret.kind = "some" THEN <<r.ret.tok>> \o Drain(r.w) ELSE <<>>

(* ------------------------------ the machine ---------------------------- *)

(* The Words value held in the variables. *)
Self == [string |-> string, off |-> off, b0 |-> b0, buffer |-> buffer]

Store(w) ==
    /\ string' = w.string
    /\ off' = w.off
    /\ b0' = w.b0
    /\ buffer' = w.buffer

(* What one loop iteration leaves behind. *)
Commit(r) ==
    /\ Store(r.w)
    /\ pc' = r.pc
    /\ ret' = IF r.ret.kind = "continue" THEN ret ELSE r.ret
    /\ out' = IF r.ret.kind = "some" THEN Append(out, r.ret.tok) ELSE out
    /\ UNCHANGED <<taken, twinVars, trimVars, updVars>>

Texts(max) ==
    {EncodeAll(cs) : cs \in UNION {[1..n -> Alphabet] : n \in 0..max}}

(* The Words of the variables, freshly constructed over one of `texts`. *)
WordsInit(texts) ==
    /\ string \in texts
    /\ off = New(string).off
    /\ b0 = New(string).b0
    /\ buffer = New(string).buffer
    /\ pc = "idle"
    /\ ret = NotCalled
    /\ out = <<>>
    /\ taken = None

(* No second Words. *)
TwinIdle == twin = [w |-> New(<<>>), pc |-> "idle", ret |-> NotCalled, out |-> <<>>]

(* `None` and `Some(release)` of Option<api::github::Release>. *)
NoRelease == <<>>
SomeRelease(r) == <<r>>

(* What the future has done last: nothing yet. *)
NoEvent == [kind |-> "init", ok |-> TRUE, releases |-> <<>>]

(* No updater. *)
UpdIdle ==
    /\ latest = NoRelease
    /\ cache = FALSE
    /\ upc = "off"
    /\ event = NoEvent

(* No TrimmedWords. *)
TrimIdle ==
    /\ tinput = <<>>
    /\ tstring = <<>>
    /\ tret = NotCalled
    /\ tout = <<>>

InitOver(texts) == WordsInit(texts) /\ TwinIdle /\ TrimIdle /\ UpdIdle

(* Entry of Words::next: the empty text ends the sequence at once. *)
NextBegin ==
    /\ pc = "idle"
    /\ IF Len(string) = 0
       THEN /\ ret' = RetNone
            /\ pc' = "idle"
       ELSE /\ pc' = "scan"
            /\ ret' = ret
    /\ UNCHANGED <<string, off, b0, buffer, out, taken>>
    /\ UNCHANGED <<twinVars, trimVars, updVars>>

ScanStep ==
    /\ pc = "scan"
    /\ \E r \in {ScanIter(Self)} : Commit(r)

QuotedStep ==
    /\ pc = "quoted"
    /\ \E r \in {QuotedIter(Self)} : Commit(r)

(* A crate-internal caller's take() between two next() calls. *)
BareTake ==
    /\ pc = "idle"
    /\ LET r == Take(Self) IN
       /\ Store(r.w)
       /\ taken' = r.out
       /\ pc' = IF r.ok THEN "idle" ELSE "panic"
    /\ UNCHANGED <<ret, out, twinVars, trimVars, updVars>>

Init == InitOver(Texts(MaxLen))

Next == NextBegin \/ ScanStep \/ QuotedStep

Spec == Init /\ [][Next]_vars

NextTake == NextBegin \/ ScanStep \/ QuotedStep \/ BareTake

InitTake == InitOver(Texts(MaxLenTake))

SpecTake == InitTake /\ [][NextTake]_vars

(* Before Words::new: nothing constructed yet. *)
InitLive ==
    /\ string = <<>>
    /\ off = 0
    /\ b0 = None
    /\ buffer = <<>>
    /\ pc = "unbuilt"
    /\ ret = NotCalled
    /\ out = <<>>
    /\ taken = None
    /\ TwinIdle
    /\ TrimIdle
    /\ UpdIdle

(* One character of each kind the scanner tells apart: whitespace, plain, *)
(* backslash, double quote, multi-byte.                                    *)
KindAlphabet == {SPACE, LetterT, BACKSLASH, QUOTE, 233}

KindTexts(max) ==
    {EncodeAll(cs) : cs \in UNION {[1..n -> KindAlphabet] : n \in 0..max}}

(* Words::new over a text of the caller's choice. *)
Construct ==
    /\ pc = "unbuilt"
    /\ \E text \in KindTexts(MaxLenLive) : Store(New(text))
    /\ pc' = "idle"
    /\ UNCHANGED <<ret, out, taken, twinVars, trimVars, updVars>>

NextLive == Construct \/ NextBegin \/ ScanStep \/ QuotedStep

(* The caller constructs a tokenizer and keeps calling next(), and a call  *)
(* in progress runs on.                                                    *)
SpecLive == InitLive /\ [][NextLive]_vars /\ WF_vars(NextLive)

(* --------------------- two Words over the same text --------------------- *)

(* Longest text, in characters, given to two tokenizers. *)
MaxLenTwo == 4

(* Mutant of TwinSelf: the second Words accumulates into the buffer of the *)
(* first.                                                                  *)
TwinSelfSharedBuffer == [twin.w EXCEPT !.buffer = buffer]

(* The second Words: its own handle on the text, cursor, lookahead and     *)
(* buffer.                                                                 *)
TwinSelf == twin.w

(* Words::new twice over the same text (a &'static str, or an Arc<String>  *)
(* and its clone).                                                         *)
InitTwo ==
    /\ WordsInit(KindTexts(MaxLenTwo))
    /\ twin = [w |-> New(string), pc |-> "idle", ret |-> NotCalled,
               out |-> <<>>]
    /\ TrimIdle
    /\ UpdIdle

(* What one loop iteration of the second Words leaves behind. *)
TwinCommit(r) ==
    /\ twin' = [w |-> r.w,
                pc |-> r.pc,
                ret |-> IF r.ret.kind = "continue" THEN twin.ret ELSE r.ret,
                out |-> IF r.ret.kind = "some"
                        THEN Append(twin.out, r.ret.tok) ELSE twin.out]
    /\ UNCHANGED <<wordsVars, trimVars, updVars>>

(* Entry of next() on the second Words. *)
TwinBegin ==
    /\ twin.pc = "idle"
    /\ twin' = IF Len(TwinSelf.string) = 0
               THEN [twin EXCEPT !.ret = RetNone]
               ELSE [twin EXCEPT !.pc = "scan"]
    /\ UNCHANGED <<wordsVars, trimVars, updVars>>

TwinScanStep ==
    /\ twin.pc = "scan"
    /\ \E r \in {ScanIter(TwinSelf)} : TwinCommit(r)

TwinQuotedStep ==
    /\ twin.pc = "quoted"
    /\ \E r \in {QuotedIter(TwinSelf)} : TwinCommit(r)

NextTwo ==
    \/ NextBegin \/ ScanStep \/ QuotedStep
    \/ TwinBegin \/ TwinScanStep \/ TwinQuotedStep

(* The callers of the two tokenizers call next() in any interleaving. *)
SpecTwo == InitTwo /\ [][NextTwo]_vars

(* ----------------------------- TrimmedWords ---------------------------- *)

(* Longest text given to TrimmedWords::new, in characters. *)
MaxLenTrim == 4

(* char::is_whitespace: the Unicode White_Space property. *)
IsUnicodeWhitespace(c) ==
    \/ c >= 9 /\ c <= 13
    \/ c \in {32, 133, 160, 5760, 8232, 8233, 8239, 8287, 12288}
    \/ c >= 8192 /\ c <= 8202

(* char::is_ascii_punctuation. *)
IsAsciiPunctuation(c) ==
    \/ c >= 33 /\ c <= 47
    \/ c >= 58 /\ c <= 64
    \/ c >= 91 /\ c <= 96
    \/ c >= 123 /\ c <= 126

(* Mutant of IsTrimSeparator: punctuation is no separator. *)
IsTrimSeparatorWhitespaceOnly(c) == IsUnicodeWhitespace(c)

(* is_trim_separator. *)
IsTrimSeparator(c) == IsUnicodeWhitespace(c) \/ IsAsciiPunctuation(c)

(* Mutant of TrimStartMatches: one leading separator is removed, not the   *)
(* whole run.                                                              *)
TrimStartOne(s) ==
    IF s # <<>> /\ IsTrimSeparator(DecodeAt(s, 0))
    THEN SliceFrom(s, WidthOf(s[1]))
    ELSE s

(* str::trim_start_matches(is_trim_separator). *)
RECURSIVE TrimStartMatches(_)
TrimStartMatches(s) ==
    IF s # <<>> /\ IsTrimSeparator(DecodeAt(s, 0))
    THEN TrimStartMatches(SliceFrom(s, WidthOf(s[1])))
    ELSE s

(* str::find(is_trim_separator), searching from byte offset i: the byte    *)
(* offset of the first separator character.                                *)
RECURSIVE FindFrom(_, _)
FindFrom(s, i) ==
    IF i >= Len(s) THEN [some |-> FALSE, n |-> 0]
    ELSE IF IsTrimSeparator(DecodeAt(s, i)) THEN [some |-> TRUE, n |-> i]
    ELSE FindFrom(s, i + WidthOf(s[i + 1]))

Find(s) == FindFrom(s, 0)

(* str::split_at. *)
SplitAt(s, n) == [out |-> SubSeq(s, 1, n), rest |-> SliceFrom(s, n)]

(* Mutant of TrimmedNew: the leading separators are kept. *)
TrimmedNewUntrimmed(text) == [string |-> text]

(* TrimmedWords::new. *)
TrimmedNew(text) == [string |-> TrimStartMatches(text)]

(* TrimmedWords::next: the splitter after the call and the value returned. *)
TrimmedNext(t) ==
    IF t.string = <<>> THEN [t |-> t, ret |-> RetNone]
    ELSE LET f == Find(t.string) IN
         IF ~f.some
         THEN [t |-> [string |-> <<>>], ret |-> RetSome(t.string)]
         ELSE LET sp == SplitAt(t.string, f.n) IN
              [t |-> [string |-> TrimStartMatches(sp.rest)],
               ret |-> RetSome(sp.out)]

(* The characters of the texts given to TrimmedWords: separators of one    *)
(* byte (space, comma, double quote, backslash), of two (U+00A0) and of    *)
(* three (U+3000), and other characters of one, two and four bytes.        *)
TrimAlphabet == {SPACE, 44, QUOTE, BACKSLASH, 160, 12288, LetterT, 233, 128076}

TrimTexts(max) ==
    {EncodeAll(cs) : cs \in UNION {[1..n -> TrimAlphabet] : n \in 0..max}}

(* The TrimmedWords value held in the variables. *)
TrimSelf == [string |-> tstring]

InitTrimmed ==
    /\ tinput \in TrimTexts(MaxLenTrim)
    /\ tstring = TrimmedNew(tinput).string
    /\ tret = NotCalled
    /\ tout = <<>>
    /\ WordsInit({<<>>})
    /\ TwinIdle
    /\ UpdIdle

(* A call of TrimmedWords::next. *)
TrimmedNextCall ==
    /\ LET r == TrimmedNext(TrimSelf) IN
       /\ tstring' = r.t.string
       /\ tret' = r.ret
       /\ tout' = IF r.ret.kind = "some" THEN Append(tout, r.ret.tok) ELSE tout
    /\ UNCHANGED <<tinput, wordsVars, twinVars, updVars>>

NextTrimmed == TrimmedNextCall

SpecTrimmed == InitTrimmed /\ [][NextTrimmed]_vars

(* -------------------------------- updater ------------------------------ *)

(* Most releases in one fetched list, and the latest publication time. *)
MaxReleases == 2
MaxStamp == 3

(* api::github::Release: the two fields the updater reads. *)
Releases == [published_at : 1..MaxStamp, prerelease : BOOLEAN]

(* What `github.releases(..)`, awaited alone or through `cache.wrap`,      *)
(* gives: an error or a list of releases in any order.                     *)
FetchResults ==
    {[ok |-> FALSE, releases |-> <<>>]}
    \cup {[ok |-> TRUE, releases |-> rs] :
            rs \in UNION {[1..n -> Releases] : n \in 0..MaxReleases}}

(* The place of r in a list sorted by `b.published_at.cmp(&a.published_at)`: *)
(* before the first release published earlier than r.                      *)
InsertByPublishedDesc(rs, r) ==
    LET later == {i \in 1..Len(rs) : rs[i].published_at < r.published_at}
        k == IF later = {} THEN Len(rs) + 1
             ELSE CHOOSE i \in later : \A j \in later : i <= j
    IN SubSeq(rs, 1, k - 1) \o <<r>> \o SubSeq(rs, k, Len(rs))

(* Mutant of SortByPublishedDesc: the list is left in the fetched order    *)
(* reversed.                                                               *)
RECURSIVE SortReversed(_)
SortReversed(rs) ==
    IF rs = <<>> THEN <<>>
    ELSE <<rs[Len(rs)]>> \o SortReversed(SubSeq(rs, 1, Len(rs) - 1))

(* `releases.sort_by(|a, b| b.published_at.cmp(&a.published_at))`: a      *)
(* stable sort, latest publication first.                                  *)
RECURSIVE SortByPublishedDesc(_)
SortByPublishedDesc(rs) ==
    IF rs = <<>> THEN <<>>
    ELSE InsertByPublishedDesc(SortByPublishedDesc(SubSeq(rs, 1, Len(rs) - 1)),
                               rs[Len(rs)])

(* `releases.into_iter().find(|r| !r.prerelease)`. *)
FindStable(rs) ==
    LET stable == {i \in 1..Len(rs) : ~rs[i].prerelease} IN
    IF stable = {} THEN NoRelease
    ELSE SomeRelease(rs[CHOOSE i \in stable : \A j \in stable : i <= j])

(* After `updater(injector)` returned: `latest` holds None and the future  *)
(* has not run.                                                            *)
InitUpdater ==
    /\ latest = NoRelease
    /\ cache = FALSE
    /\ upc = "start"
    /\ event = NoEvent
    /\ WordsInit({<<>>})
    /\ TwinIdle
    /\ TrimIdle

(* The head of the future: `api::GitHub::new()?`, the interval, and the    *)
(* cache stream with the cache it holds at that time.                      *)
UpdaterStart ==
    /\ upc = "start"
    /\ \E ok \in BOOLEAN, c \in BOOLEAN :
          IF ok THEN upc' = "loop" /\ cache' = c
                ELSE upc' = "failed" /\ cache' = cache
    /\ event' = [kind |-> "start", ok |-> upc' = "loop", releases |-> <<>>]
    /\ UNCHANGED <<latest, wordsVars, twinVars, trimVars>>

(* The select arm `update = cache_stream.recv() => cache = update`. *)
CacheUpdate ==
    /\ upc = "loop"
    /\ \E update \in BOOLEAN : cache' = update
    /\ event' = [kind |-> "cache", ok |-> TRUE, releases |-> <<>>]
    /\ UNCHANGED <<latest, upc, wordsVars, twinVars, trimVars>>

(* The select arm of `interval.tick()`: fetch (`?` ends the future with    *)
(* the error), sort, find, and write `latest` unless `continue`.           *)
Tick ==
    /\ upc = "loop"
    /\ \E res \in FetchResults :
          /\ event' = [kind |-> "tick", ok |-> res.ok, releases |-> res.releases]
          /\ IF ~res.ok
             THEN upc' = "failed" /\ latest' = latest
             ELSE /\ upc' = "loop"
                  /\ LET release == FindStable(SortByPublishedDesc(res.releases))
                     IN latest' = IF release = NoRelease THEN latest ELSE release
    /\ UNCHANGED <<cache, wordsVars, twinVars, trimVars>>

NextUpdater == UpdaterStart \/ CacheUpdate \/ Tick

(* Cache updates and interval ticks reach the future in any order. *)
SpecUpdater == InitUpdater /\ [][NextUpdater]_vars

(* ------------------------ vocabulary of the claims --------------------- *)

(* The whitespace of the tokenizer's contract: space, tab, CR, LF. *)
WS == {32, 9, 13, 10}

(* The characters of a well-formed text, in order. *)
RECURSIVE Chars(_)
Chars(s) ==
    IF s = <<>> THEN <<>>
    ELSE <<DecodeAt(s, 0)>> \o Chars(SliceFrom(s, WidthOf(s[1])))

Bytes(s) == {s[i] : i \in 1..Len(s)}

(* next() is not running and its last return was None: the sequence has    *)
(* been drained.                                                           *)
Drained == pc = "idle" /\ ret.kind = "none"

(* A call of next() has returned and no other is in progress. *)
Returned == pc = "idle" /\ ret.kind \in {"none", "some"}

(* The role of every character of a text under the mode rules: "sep" for  *)
(* whitespace outside a quoted run, "esc" for an escaping backslash, "lit" *)
(* for a character that is appended (an escaped character, or any other    *)
(* character that is neither a delimiting quote nor separating             *)
(* whitespace), "quote" for a delimiting double quote.                     *)
RECURSIVE Roles(_, _, _)
Roles(cs, i, quoted) ==
    IF i > Len(cs) THEN <<>>
    ELSE IF cs[i] = 92
        THEN IF i < Len(cs)
             THEN <<"esc", "lit">> \o Roles(cs, i + 2, quoted)
             ELSE <<"esc">>
    ELSE IF cs[i] = 34 THEN <<"quote">> \o Roles(cs, i + 1, ~quoted)
    ELSE IF cs[i] \in WS /\ ~quoted THEN <<"sep">> \o Roles(cs, i + 1, quoted)
    ELSE <<"lit">> \o Roles(cs, i + 1, quoted)

RolesOf(cs) == Roles(cs, 1, FALSE)

(* Positions i and j of the same logical run: no separator from i to j. *)
SameRun(r, i, j) == \A k \in i..j : r[k] # "sep"

(* The first positions of the logical runs: the maximal spans without a    *)
(* separator.                                                              *)
RunStarts(r) ==
    {i \in 1..Len(r) : r[i] # "sep" /\ (i = 1 \/ r[i - 1] = "sep")}

(* The last position of the logical run that starts at i. *)
RunEnd(r, i) ==
    CHOOSE j \in i..Len(r) :
        SameRun(r, i, j) /\ (j = Len(r) \/ r[j + 1] = "sep")

(* The character an appended position stands for: the escape table after   *)
(* an escaping backslash, the character itself otherwise.                  *)
Decoded(cs, r, i) ==
    IF i > 1 /\ r[i - 1] = "esc"
    THEN (CASE cs[i] = 116 -> 9 [] cs[i] = 114 -> 13 [] cs[i] = 110 -> 10
            [] OTHER -> cs[i])
    ELSE cs[i]

(* The decoded content of positions i..j: the appended characters. *)
RECURSIVE RunText(_, _, _, _)
RunText(cs, r, i, j) ==
    IF i > j THEN <<>>
    ELSE (IF r[i] = "lit" THEN Encode(Decoded(cs, r, i)) ELSE <<>>)
         \o RunText(cs, r, i + 1, j)

(* The decoded contents of the logical runs from position i on, in order. *)
RECURSIVE RunTexts(_, _, _)
RunTexts(cs, r, i) ==
    IF i > Len(r) THEN <<>>
    ELSE IF r[i] = "sep" THEN RunTexts(cs, r, i + 1)
    ELSE LET j == RunEnd(r, i) IN
         <<RunText(cs, r, i, j)>> \o RunTexts(cs, r, j + 1)

NonEmpty(t) == t # <<>>

(* The maximal runs of non-whitespace bytes of a text, in order. *)
RECURSIVE PlainRuns(_, _)
PlainRuns(s, cur) ==
    IF s = <<>> THEN (IF cur = <<>> THEN <<>> ELSE <<cur>>)
    ELSE IF Head(s) \in WS
        THEN (IF cur = <<>> THEN <<>> ELSE <<cur>>) \o PlainRuns(Tail(s), <<>>)
    ELSE PlainRuns(Tail(s), Append(cur, Head(s)))

(* ------------------------------- claims -------------------------------- *)

(* C1: a token returned by Words::next() is never the empty string, and a  *)
(* text of whitespace alone (space, tab, CR, LF) yields no token at all.   *)
C1_NoEmptyToken ==
    /\ ret.kind = "some" => ret.tok # <<>>
    /\ \A i \in 1..Len(out) : out[i] # <<>>
    /\ Bytes(string) \subseteq WS => out = <<>>

(* C1 witness: a drained text with leading, repeated and trailing          *)
(* whitespace around its one token.                                      *)
C1_Witness ==
    /\ Drained
    /\ Len(out) = 1
    /\ Len(string) = 4
    /\ string[1] \in WS /\ string[3] \in WS /\ string[4] \in WS
    /\ string[2] \notin WS \cup {92, 34}

(* C2 as stated: once drained, the number of tokens equals the number of   *)
(* logical runs of the text, an empty quoted pair and a lone trailing      *)
(* backslash included.                                                     *)
C2_Original ==
    Drained => Len(out) = Cardinality(RunStarts(RolesOf(Chars(string))))

(* C2 amended: once drained, the number of tokens equals the number of     *)
(* logical runs that hold at least one appended character (a run made of   *)
(* delimiting quotes and a lone trailing backslash alone yields no token). *)
C2_TokenCount ==
    Drained =>
        LET r == RolesOf(Chars(string)) IN
        Len(out) =
            Cardinality({i \in RunStarts(r) :
                            \E k \in i..RunEnd(r, i) : r[k] = "lit"})

(* C2 witness: a drained text with an empty quoted pair, whitespace, and a *)
(* run that yields a token: two logical runs, one token.                   *)
C2_Witness ==
    /\ Drained
    /\ Len(out) = 1
    /\ Cardinality(RunStarts(RolesOf(Chars(string)))) = 2

(* C3: for a text without backslash and double quote, the drained tokens   *)
(* are exactly the maximal runs of non-whitespace characters, in order and *)
(* unchanged.                                                              *)
C3_PlainSplit ==
    (Drained /\ 92 \notin Bytes(string) /\ 34 \notin Bytes(string))
        => out = PlainRuns(string, <<>>)

(* C3 witness: a drained text without backslash and quote that holds two   *)
(* runs, one of them a multi-byte character.                               *)
C3_Witness ==
    /\ Drained
    /\ 92 \notin Bytes(string) /\ 34 \notin Bytes(string)
    /\ Len(out) = 2
    /\ \E b \in Bytes(string) : b >= 128

(* Number of double-quote characters of a string. *)
QuoteCount(t) == Cardinality({i \in 1..Len(t) : t[i] = 34})

RECURSIVE QuoteCountAll(_)
QuoteCountAll(ts) ==
    IF ts = <<>> THEN 0 ELSE QuoteCount(Head(ts)) + QuoteCountAll(Tail(ts))

(* Number of escaped double quotes of a text: the appended positions that  *)
(* hold a double quote.                                                    *)
EscapedQuotes(cs) ==
    LET r == RolesOf(cs) IN
    Cardinality({i \in 1..Len(cs) : r[i] = "lit" /\ cs[i] = 34})

(* A loop of next() is running; its next take() returns the lookahead b0. *)
Scanning == pc \in {"scan", "quoted"}

(* One step inside or at the edge of a quoted run. *)
C4_Step ==
    /\ (pc = "quoted" /\ b0.some /\ b0.c \in WS)
        => /\ buffer' = Append(buffer, b0.c)
           /\ pc' = "quoted"
           /\ out' = out /\ ret' = ret
    /\ (Scanning /\ b0.some /\ b0.c = 34)
        => /\ buffer' = buffer
           /\ out' = out /\ ret' = ret
           /\ pc' = IF pc = "scan" THEN "quoted" ELSE "scan"
    /\ QuoteCount(buffer') > QuoteCount(buffer)
        => /\ Scanning /\ b0.some /\ b0.c = 92
           /\ off < Len(string) /\ string[off + 1] = 34

(* C4: inside a quoted run a whitespace character is appended to the token *)
(* in progress and ends neither the run nor the token; a delimiting quote  *)
(* switches the mode and appends nothing; the buffer gains a double quote  *)
(* only from a backslash followed by a double quote, so the double quotes  *)
(* of the tokens are never more than the escaped double quotes of the text *)
(* and, once drained, exactly as many.                                     *)
C4_QuotedRun ==
    /\ [][C4_Step]_vars
    /\ [](QuoteCountAll(out) + QuoteCount(buffer)
            <= EscapedQuotes(Chars(string)))
    /\ [](Drained => QuoteCountAll(out) = EscapedQuotes(Chars(string)))

(* C4 witness: a returned token that holds whitespace and no double quote, *)
(* from a text with a double quote and without backslash.                  *)
C4_Witness ==
    /\ Returned /\ ret.kind = "some"
    /\ Bytes(ret.tok) \cap WS # {}
    /\ 34 \notin Bytes(ret.tok)
    /\ 34 \in Bytes(string) /\ 92 \notin Bytes(string)

(* A step that returns a token. *)
C5_Step ==
    out' # out
        => /\ pc = "scan"
           /\ ~b0.some \/ b0.c \in WS
           /\ buffer # <<>>
           /\ out' = Append(out, buffer)

(* C5: next() returns a token only on taking a whitespace character in the *)
(* unquoted mode (never an escaped one, which the escape takes) or at the  *)
(* end of input, and the token is the whole buffer; so, once drained, the  *)
(* tokens are the decoded contents of the logical runs, each run one       *)
(* token: adjacent unquoted and quoted segments are concatenated.          *)
C5_TokenEnd ==
    /\ [][C5_Step]_vars
    /\ [](Drained =>
            LET cs == Chars(string) IN
            out = SelectSeq(RunTexts(cs, RolesOf(cs), 1), NonEmpty))

(* C5 witness: a drained text of an unquoted character, a quoted run of    *)
(* one character and nothing else, with the single token of both.          *)
C5_Witness ==
    /\ Drained
    /\ LET cs == Chars(string) IN
       /\ Len(cs) = 4
       /\ cs[1] \notin WS \cup {92, 34}
       /\ cs[2] = 34 /\ cs[4] = 34
       /\ cs[3] \in WS
       /\ out = <<Encode(cs[1]) \o Encode(cs[3])>>

(* The escape table: TAB for t, CR for r, LF for n, the character itself   *)
(* otherwise.                                                              *)
Unescaped(c) ==
    CASE c = 116 -> 9 [] c = 114 -> 13 [] c = 110 -> 10 [] OTHER -> c

(* A step that takes a backslash with a character c after it. *)
C6_Step ==
    (Scanning /\ b0.some /\ b0.c = 92 /\ off < Len(string))
        => LET c == DecodeAt(string, off) IN
           /\ buffer' = buffer \o Encode(Unescaped(c))
           /\ pc' = pc
           /\ out' = out /\ ret' = ret
           /\ Rest(Self)' = SliceFrom(Rest(Self), 1 + Len(Encode(c)))

(* C6: in both modes a backslash followed by a character c consumes those  *)
(* two characters and appends the one character of the escape table for c; *)
(* the mode is unchanged and no token ends, whatever c is.                 *)
C6_Escape == [][C6_Step]_vars

(* C6 witness: a returned token holding a double quote and a TAB, from a   *)
(* text without TAB: an escaped quote and an escaped t.                    *)
C6_Witness ==
    /\ Returned /\ ret.kind = "some"
    /\ 34 \in Bytes(ret.tok)
    /\ 9 \in Bytes(ret.tok) /\ 9 \notin Bytes(string)

(* C7, in every state: rest() is a suffix of the text; with a lookahead    *)
(* (n, c) it is not empty, begins at byte offset n < len and its first     *)
(* character is c; it is empty exactly when the lookahead is exhausted.    *)
C7_RestShape ==
    /\ \E k \in 0..Len(string) : Rest(Self) = SliceFrom(string, k)
    /\ b0.some =>
        /\ b0.n < Len(string)
        /\ Len(Rest(Self)) = Len(string) - b0.n
        /\ DecodeAt(Rest(Self), 0) = b0.c
    /\ Rest(Self) = <<>> <=> ~b0.some

(* C7: rest() is always the verbatim suffix of string() that begins at the *)
(* lookahead character, empty exactly when the lookahead is exhausted, and *)
(* its length never increases.                                             *)
C7_RestSuffix ==
    /\ []C7_RestShape
    /\ [][Len(Rest(Self)') <= Len(Rest(Self))]_vars

(* C7 witness: after a returned token, rest() is the undecoded backslash   *)
(* and double quote that follow it in the text.                            *)
C7_Witness ==
    /\ Returned /\ ret.kind = "some"
    /\ Rest(Self) = <<92, 34>>
    /\ Len(string) = 4

(* C8: when a call of next() has returned, rest() is empty or begins with  *)
(* a character that is no space, tab, CR or LF.                            *)
C8_RestNotWhitespace ==
    Returned => (Rest(Self) = <<>> \/ Rest(Self)[1] \notin WS)

(* C8 witness: a token was returned at a run of two whitespace characters  *)
(* and rest() begins right after the run.                                  *)
C8_Witness ==
    /\ Returned /\ ret.kind = "some"
    /\ 92 \notin Bytes(string)
    /\ \E i \in 2..(Len(string) - 2) :
        /\ string[i] \in WS /\ string[i + 1] \in WS
        /\ Rest(Self) = SliceFrom(string, i + 1)

(* C9: between two calls of next(), whatever the number of calls made, the *)
(* tokens still to come are those of a fresh tokenizer over rest().        *)
C9_RestResume ==
    pc = "idle" => Drain(Self) = Drain(New(Rest(Self)))

(* C9 witness: after a returned token, rest() begins with a double quote   *)
(* and a token is still to come.                                           *)
C9_Witness ==
    /\ Returned /\ ret.kind = "some"
    /\ Rest(Self) # <<>> /\ Rest(Self)[1] = 34
    /\ Drain(Self) # <<>>

(* A string of whole UTF-8 characters. *)
RECURSIVE WellFormed(_)
WellFormed(t) ==
    \/ t = <<>>
    \/ /\ ~IsCont(t[1])
       /\ WidthOf(t[1]) <= Len(t)
       /\ \A k \in 2..WidthOf(t[1]) : IsCont(t[k])
       /\ WellFormed(SliceFrom(t, WidthOf(t[1])))

(* The multi-byte characters of a well-formed string. *)
WideChars(t) == {c \in {Chars(t)[i] : i \in 1..Len(Chars(t))} : c >= 128}

(* C10: with take() and next() called in any order, no slice panics, the   *)
(* cursor and the lookahead offset are character boundaries within the     *)
(* text, and rest(), the buffer and every token are strings of whole       *)
(* characters whose multi-byte characters are characters of the input.     *)
C10_CharBoundary ==
    /\ pc # "panic"
    /\ off \in 0..Len(string) /\ IsCharBoundary(string, off)
    /\ b0.some => (b0.n \in 0..(Len(string) - 1) /\ IsCharBoundary(string, b0.n))
    /\ WellFormed(Rest(Self))
    /\ WellFormed(buffer) /\ WideChars(buffer) \subseteq WideChars(string)
    /\ \A i \in 1..Len(out) :
        WellFormed(out[i]) /\ WideChars(out[i]) \subseteq WideChars(string)

(* C10 witness: a text mixing a one-byte character with multi-byte ones,   *)
(* a returned token of a character of three or four bytes and a take()     *)
(* that returned a multi-byte character.                                   *)
C10_Witness ==
    /\ Returned /\ ret.kind = "some" /\ Len(ret.tok) >= 3
    /\ WideChars(ret.tok) # {}
    /\ taken.some /\ taken.c >= 128
    /\ \E b \in Bytes(string) : b < 128

(* The text ends with an escaping backslash: one with no character after  *)
(* it that is not itself escaped.                                          *)
EndsWithLoneBackslash(t) ==
    t # <<>> /\ RolesOf(Chars(t))[Len(Chars(t))] = "esc"

(* The text ends inside a quoted run: it holds an odd number of delimiting *)
(* quotes.                                                                 *)
EndsInsideQuotes(t) ==
    LET r == RolesOf(Chars(t)) IN
    Cardinality({i \in 1..Len(r) : r[i] = "quote"}) % 2 = 1

ButLast(t) == SubSeq(t, 1, Len(t) - 1)

(* C13 as stated: whenever the last character of the text is a backslash,  *)
(* the drained tokens are those of the text without it.                    *)
C13_Original ==
    (Drained /\ string # <<>> /\ string[Len(string)] = 92)
        => out = Drain(New(ButLast(string)))

(* The step that takes a backslash with nothing after it. *)
C13_Step ==
    (Scanning /\ b0.some /\ b0.c = 92 /\ off >= Len(string))
        => /\ buffer' = buffer
           /\ pc' = pc
           /\ out' = out /\ ret' = ret
           /\ ~b0'.some

(* C13 amended: a backslash that is the last character of the text and is  *)
(* not itself escaped by a backslash before it appends nothing and raises  *)
(* no error, in either mode, and the drained tokens are those of the text  *)
(* without it.                                                             *)
C13_LoneBackslash ==
    /\ [][C13_Step]_vars
    /\ [](pc # "panic")
    /\ []((Drained /\ EndsWithLoneBackslash(string))
            => out = Drain(New(ButLast(string))))

(* C13 witness: a drained text that ends with a lone backslash inside a    *)
(* quoted run and yields a token.                                          *)
C13_Witness ==
    /\ Drained
    /\ EndsWithLoneBackslash(string) /\ EndsInsideQuotes(string)
    /\ out # <<>>

(* The two steps at the end of input inside a quoted run. *)
C14_Step ==
    /\ (pc = "quoted" /\ ~b0.some)
        => /\ pc' = "scan"
           /\ buffer' = buffer
           /\ out' = out /\ ret' = ret
    /\ (pc = "scan" /\ ~b0.some)
        => /\ pc' = "idle"
           /\ buffer' = <<>>
           /\ ret' = IF buffer # <<>> THEN RetSome(buffer) ELSE RetNone
           /\ out' = IF buffer # <<>> THEN Append(out, buffer) ELSE out

(* C14: at the end of input inside a quoted run the call raises no error,  *)
(* leaves the run with the buffer as it is and returns the buffer as the   *)
(* final token if it is not empty; the drained tokens are the decoded      *)
(* logical runs, the open run included; and a call made when the input is  *)
(* exhausted returns None.                                                 *)
C14_UnterminatedQuote ==
    /\ [][C14_Step]_vars
    /\ [](pc # "panic")
    /\ []((Drained /\ EndsInsideQuotes(string)) =>
            LET cs == Chars(string) IN
            out = SelectSeq(RunTexts(cs, RolesOf(cs), 1), NonEmpty))
    /\ []((pc = "idle" /\ ~b0.some) => NextCall(Self).ret = RetNone)

(* C14 witness: a drained text of an unquoted character, an opening quote  *)
(* that is never closed, a character and a whitespace character, with the  *)
(* single token of the three characters.                                   *)
C14_Witness ==
    /\ Drained
    /\ LET cs == Chars(string) IN
       /\ Len(cs) = 4
       /\ cs[1] \notin WS \cup {92, 34}
       /\ cs[2] = 34
       /\ cs[3] \notin {92, 34}
       /\ cs[4] \in WS
       /\ out = <<Encode(cs[1]) \o Encode(cs[3]) \o Encode(cs[4])>>

(* C15: once next() has returned None it returns None ever after, and      *)
(* rest() is and stays empty; over the empty text the first call returns   *)
(* None.                                                                    *)
C15_SinglePass ==
    /\ [][ret.kind = "none" => (ret'.kind = "none" /\ out' = out)]_vars
    /\ [](ret.kind = "none" => Rest(Self) = <<>>)
    /\ []((string = <<>> /\ ret.kind # "init") => (ret.kind = "none" /\ out = <<>>))

(* C15 witness: a call is in progress after next() returned None at the    *)
(* end of a text that gave a token.                                        *)
C15_Witness ==
    /\ ret.kind = "none"
    /\ pc = "scan"
    /\ out # <<>>

(* C16: every call of next() that returns a token leaves rest() strictly   *)
(* shorter; a take() with a lookahead leaves rest() strictly shorter and   *)
(* a new lookahead, if any, at a strictly greater offset; the tokens are   *)
(* never more than the characters of the text; and a caller that keeps     *)
(* calling next() on a constructed tokenizer gets None.                    *)
C16_Finite ==
    /\ [](pc = "idle" =>
            LET r == NextCall(Self) IN
            r.ret.kind = "some" => Len(Rest(r.w)) < Len(Rest(Self)))
    /\ [](b0.some =>
            LET t == Take(Self).w IN
            /\ Len(Rest(t)) < Len(Rest(Self))
            /\ t.b0.some => t.b0.n > b0.n)
    /\ [](Len(out) <= Len(Chars(string)))
    /\ (pc = "idle") ~> Drained

(* C16 witness: a drained text of three characters that gave two tokens. *)
C16_Witness ==
    /\ Drained
    /\ Len(Chars(string)) = 3
    /\ Len(out) = 2

(* s is an initial part of t. *)
IsPrefix(s, t) == Len(s) <= Len(t) /\ SubSeq(t, 1, Len(s)) = s

(* The second Words has been drained. *)
TwinDrained == twin.pc = "idle" /\ twin.ret.kind = "none"

(* C17: of two tokenizers over the same text whose next() calls interleave *)
(* in any order, each has returned an initial part of the tokens a fresh   *)
(* tokenizer over the text yields when drained alone, and all of them once *)
(* drained; string() of both is and stays the text; and a step of one      *)
(* changes nothing of the other.                                           *)
C17_Independent ==
    /\ [](IsPrefix(out, Drain(New(string))))
    /\ [](IsPrefix(twin.out, Drain(New(string))))
    /\ [](Drained => out = Drain(New(string)))
    /\ [](TwinDrained => twin.out = Drain(New(string)))
    /\ [](twin.w.string = string)
    /\ [][string' = string /\ twin'.w.string = twin.w.string]_vars
    /\ [][wordsVars' = wordsVars \/ twin' = twin]_vars

(* C17 witness: the first tokenizer is drained and has returned a token    *)
(* while the second is inside a quoted run of its first call.              *)
C17_Witness ==
    /\ Drained /\ out # <<>>
    /\ twin.pc = "quoted" /\ twin.out = <<>> /\ twin.ret.kind = "init"
    /\ twin.w.off < off

(* C18: with take() and next() called in any order, a lookahead (n, c) is  *)
(* the character of the text at byte offset n and the cursor is n plus the *)
(* encoded width of c; without a lookahead the cursor is the length of the *)
(* text; peek() is the lookahead; the buffer is empty whenever no call of  *)
(* next() is in progress; and take() returns the lookahead it replaces.    *)
C18_Lookahead ==
    /\ [](b0.some =>
            /\ b0.n < Len(string)
            /\ DecodeAt(string, b0.n) = b0.c
            /\ off = b0.n + Len(Encode(b0.c)))
    /\ [](~b0.some => off = Len(string))
    /\ [](Peek(Self) = b0)
    /\ [](pc = "idle" => buffer = <<>>)
    /\ [][(pc = "idle" /\ pc' = "idle" /\ ret' = ret) => taken' = b0]_vars

(* C18 witness: take() outside next() has returned a multi-byte character, *)
(* next() has returned a token, and the lookahead is exhausted.            *)
C18_Witness ==
    /\ pc = "idle" /\ ret.kind = "some"
    /\ taken.some /\ taken.c >= 128
    /\ ~b0.some /\ off = Len(string)

(* The separators of the simple splitter: Unicode whitespace and ASCII     *)
(* punctuation, among the characters of the texts.                         *)
Separators == {32, 44, 34, 92, 160, 12288}

(* The characters of a well-formed string that are no separators, encoded. *)
RECURSIVE WithoutSeparators(_)
WithoutSeparators(cs) ==
    IF cs = <<>> THEN <<>>
    ELSE (IF Head(cs) \in Separators THEN <<>> ELSE Encode(Head(cs)))
         \o WithoutSeparators(Tail(cs))

(* The maximal runs of non-separator characters, encoded, in order. *)
RECURSIVE SeparatedRuns(_, _)
SeparatedRuns(cs, cur) ==
    IF cs = <<>> THEN (IF cur = <<>> THEN <<>> ELSE <<cur>>)
    ELSE IF Head(cs) \in Separators
        THEN (IF cur = <<>> THEN <<>> ELSE <<cur>>)
             \o SeparatedRuns(Tail(cs), <<>>)
    ELSE SeparatedRuns(Tail(cs), cur \o Encode(Head(cs)))

RECURSIVE Flatten(_)
Flatten(ts) == IF ts = <<>> THEN <<>> ELSE Head(ts) \o Flatten(Tail(ts))

CharsOf(t) == {Chars(t)[i] : i \in 1..Len(Chars(t))}

(* C11: no token TrimmedWords::next returns holds a separator character    *)
(* (Unicode whitespace or ASCII punctuation).                              *)
C11_NoSeparatorInToken ==
    /\ tret.kind = "some" => CharsOf(tret.tok) \cap Separators = {}
    /\ \A i \in 1..Len(tout) : CharsOf(tout[i]) \cap Separators = {}

(* C11 witness: two tokens returned from a text that holds a punctuation   *)
(* separator and a multi-byte whitespace separator.                        *)
C11_Witness ==
    /\ Len(tout) = 2
    /\ 44 \in CharsOf(tinput) /\ 12288 \in CharsOf(tinput)

(* A call of next() on the last token or past it. *)
C12_Step ==
    /\ (tstring # <<>> /\ CharsOf(tstring) \cap Separators = {})
        => (tret' = RetSome(tstring) /\ tstring' = <<>>)
    /\ tstring = <<>> => (tret' = RetNone /\ tout' = tout /\ tstring' = <<>>)

(* C12: the remaining slice never begins with a separator; a call that     *)
(* finds no separator returns the whole slice and leaves it empty, and a   *)
(* call on the empty slice returns None and yields nothing.                *)
C12_SliceInvariant ==
    /\ [](tstring = <<>> \/ DecodeAt(tstring, 0) \notin Separators)
    /\ [][C12_Step]_vars

(* C12 witness: the text began with separators, its last token was found   *)
(* with no separator left, and the next call returned None.                *)
C12_Witness ==
    /\ tret.kind = "none"
    /\ Len(tout) = 2
    /\ tinput # <<>> /\ DecodeAt(tinput, 0) \in Separators
    /\ Chars(tinput)[Len(Chars(tinput))] \notin Separators

(* C19: the tokens are non-empty; in every state the tokens so far         *)
(* followed by the non-separator characters of the remaining slice are the *)
(* non-separator characters of the text, in order; and once next() has     *)
(* returned None the tokens are the maximal runs of non-separator          *)
(* characters of the text (double quote and backslash are separators like  *)
(* any other punctuation).                                                 *)
C19_TokensPartition ==
    /\ \A i \in 1..Len(tout) : tout[i] # <<>>
    /\ Flatten(tout) \o WithoutSeparators(Chars(tstring))
        = WithoutSeparators(Chars(tinput))
    /\ tret.kind = "none" => tout = SeparatedRuns(Chars(tinput), <<>>)

(* C19 witness: a drained text with a double quote, a backslash and two    *)
(* tokens, one of them multi-byte.                                         *)
C19_Witness ==
    /\ tret.kind = "none"
    /\ Len(tout) = 2
    /\ 34 \in CharsOf(tinput) /\ 92 \in CharsOf(tinput)
    /\ \E i \in 1..2 : Len(tout[i]) > 1

(* The releases of a fetched list that are no prereleases. *)
StableOf(rs) == {rs[i] : i \in {j \in 1..Len(rs) : ~rs[j].prerelease}}

(* One step of the updater's future, told by what it did (event'). *)
C20_Step ==
    /\ latest' # latest
        => (event'.kind = "tick" /\ event'.ok /\ StableOf(event'.releases) # {})
    /\ (event'.kind = "tick" /\ event'.ok /\ StableOf(event'.releases) # {})
        => /\ latest' # NoRelease
           /\ latest'[1] \in StableOf(event'.releases)
           /\ \A r \in StableOf(event'.releases) :
                 r.published_at <= latest'[1].published_at
    /\ (event'.kind = "tick" /\ event'.ok /\ StableOf(event'.releases) = {})
        => (latest' = latest /\ upc' = "loop")
    /\ event'.kind = "cache" => latest' = latest
    /\ (event'.kind = "tick" /\ ~event'.ok)
        => (latest' = latest /\ upc' = "failed")
    /\ latest # NoRelease => latest' # NoRelease

(* C20: `latest` is None until the future has run; a step changes it only  *)
(* if it is a tick that fetched a release that is no prerelease, and then  *)
(* to such a release of the greatest published_at; other ticks and cache   *)
(* updates leave it alone; it never holds a prerelease and never becomes   *)
(* None again; a failed fetch ends the future with `latest` as it was,     *)
(* and an ended future does nothing more.                                  *)
C20_Latest ==
    /\ [](upc = "start" => latest = NoRelease)
    /\ [][C20_Step]_vars
    /\ [](latest # NoRelease => ~latest[1].prerelease)
    /\ [][upc = "failed" => UNCHANGED vars]_vars

(* C20 witness: a tick fetched a prerelease published later than the       *)
(* release `latest` holds, listed before it, and a cache is set.           *)
C20_Witness ==
    /\ upc = "loop" /\ cache
    /\ event.kind = "tick" /\ event.ok
    /\ Len(event.releases) = 2
    /\ event.releases[1].prerelease
    /\ latest = SomeRelease(event.releases[2])
    /\ event.releases[1].published_at > latest[1].published_at

====
